---- MODULE Spec2Model ----
(***************************************************************************)
(* Model of findBlockByTimestamp, the approximate block-by-timestamp       *)
(* locator of 02-transaction-simulation/simulate-past-state.js             *)
(* (lines 146-193).  The provider (provider.getBlock) is the environment:  *)
(* it answers every fetch with the block's timestamp or rejects it.        *)
(***************************************************************************)
EXTENDS Integers, Sequences, FiniteSets, TLC

VARIABLES
    pc,               \* position of the async function: start, loop, await, done, rejected
    latestNumber,     \* latestBlock.number, as served by provider.getBlock('latest')
    timestamps,       \* the chain: block number -> block.timestamp
    targetTimestamp,  \* the parameter of findBlockByTimestamp
    left,             \* let left
    right,            \* let right
    mid,              \* const mid of the current iteration
    closestBlock,     \* let closestBlock
    fetched,          \* the block numbers passed to provider.getBlock(mid), in order
    brokeOut,         \* TRUE once the loop was left through `break`
    result,           \* the value the returned promise resolved with
    error,            \* the reason the returned promise rejected with
    thrown,           \* the reason the provider rejected a fetch with
    failedAt,         \* Len(fetched) when the provider rejected
    duo,              \* two concurrent invocations of findBlockByTimestamp: their locals
    readme,           \* the locals of the README's getBlockByTimestamp
    aave,             \* the locals and the submitted transactions of supplyToAave
    retry,            \* the locals and the attempt history of executeWithRetry
    pager,            \* the locals and the requested chunks of paginatedQuery
    pages,            \* the subgraph and the locals of getAllTransfersPaginated
    token,            \* the storage and the event log of the SampleToken contract
    store             \* the entities of the subgraph mapping

\* the state of the other functions, which a call of findBlockByTimestamp leaves alone
others == <<duo, readme, aave, retry, pager, pages, token, store>>

vars == <<pc, latestNumber, timestamps, targetTimestamp, left, right, mid,
          closestBlock, fetched, brokeOut, result, error, thrown, failedAt,
          duo, readme, aave, retry, pager, pages, token, store>>

\* the single call of findBlockByTimestamp, when another function is under study
locator == <<pc, targetTimestamp, left, right, mid, closestBlock, fetched,
             brokeOut, result, error, thrown, failedAt>>

----------------------------------------------------------------------------
(* Bounds of the checked inputs *)

MaxBlock == 3          \* the largest head block number enumerated
MaxTimeUnits == 4      \* timestamps are 0, 2 * TimeStep, .., MaxTimeUnits * 2 * TimeStep
TimeStep == 5          \* seconds between two enumerated targets
SyntheticHead == 1000  \* head of the synthetic 12-second series

(* Program constants *)

Tolerance == 15        \* `< 15`, "Within 15 seconds is close enough"

Null == [null |-> TRUE]      \* JavaScript null
Idle == [idle |-> TRUE]      \* a function that is not called
None == "none"               \* no error
Errors == {"timeout", "network"}

Times == {k * 2 * TimeStep : k \in 0..MaxTimeUnits}
Targets == {k * TimeStep : k \in 0..(2 * MaxTimeUnits)}

SyntheticSeries == [n \in 0..SyntheticHead |-> 12 * n]
SyntheticTargets == {6000, 6005, 0 - 100, 999999}

----------------------------------------------------------------------------
(* Pure helpers of the loop body *)

Abs(x) == IF x < 0 THEN 0 - x ELSE x

\* the block object provider.getBlock(n) resolves with
Block(n) == [number |-> n, timestamp |-> timestamps[n]]

\* Math.abs(block.timestamp - targetTimestamp)
Distance(block) == Abs(block.timestamp - targetTimestamp)

\* the midpoint taken one block too high
MidOffByOne(l, r) == (l + r) \div 2 + 1

\* const mid = Math.floor((left + right) / 2)
Mid(l, r) == (l + r) \div 2

\* the loop condition written `left < right`
LoopConditionStrict == left < right

\* while (left <= right)
LoopCondition == left <= right

\* if (Math.abs(block.timestamp - targetTimestamp) < 15)
CloseEnough(block) == Distance(block) < Tolerance

\* the lower bound moved past one block too many: left = mid + 2
NextLeftSkips(block, m) == IF block.timestamp < targetTimestamp THEN m + 2 ELSE left

\* the upper bound moved past one block too many: right = mid - 2
NextRightSkips(block, m) == IF block.timestamp < targetTimestamp THEN right ELSE m - 2

\* the upper bound kept on the probed block: right = mid
NextRightKeepsMid(block, m) == IF block.timestamp < targetTimestamp THEN right ELSE m

\* if (block.timestamp < targetTimestamp) left = mid + 1 else right = mid - 1
NextLeft(block, m) == IF block.timestamp < targetTimestamp THEN m + 1 ELSE left
NextRight(block, m) == IF block.timestamp < targetTimestamp THEN right ELSE m - 1

\* the comparison inverted: the farther block is kept
NextClosestFarther(block) ==
    IF closestBlock = Null \/ Distance(block) > Distance(closestBlock)
    THEN block ELSE closestBlock

\* the closest block is set once and never compared again
NextClosestKeepFirst(block) == IF closestBlock = Null THEN block ELSE closestBlock

\* if (!closestBlock || |block - target| < |closestBlock - target|) closestBlock = block
NextClosest(block) ==
    IF closestBlock = Null \/ Distance(block) < Distance(closestBlock)
    THEN block ELSE closestBlock

----------------------------------------------------------------------------
(* State after the call, before the first await *)

Init ==
    /\ pc = "start"
    /\ \/ /\ latestNumber \in (0 - 1)..MaxBlock
          /\ timestamps \in [0..latestNumber -> Times]
          /\ targetTimestamp \in Targets
       \/ /\ latestNumber = SyntheticHead
          /\ timestamps = SyntheticSeries
          /\ targetTimestamp \in SyntheticTargets
    /\ left = 0
    /\ right = 0
    /\ mid = 0
    /\ closestBlock = Null
    /\ fetched = << >>
    /\ brokeOut = FALSE
    /\ result = Null
    /\ error = None
    /\ thrown = None
    /\ failedAt = 0
    /\ duo = Idle
    /\ readme = Idle
    /\ aave = Idle
    /\ retry = Idle
    /\ pager = Idle
    /\ pages = Idle
    /\ token = Idle
    /\ store = Idle

\* the closest block seeded with the head block instead of null
GetLatestResolveSeeded ==
    /\ pc = "start"
    /\ left' = 0
    /\ right' = latestNumber
    /\ closestBlock' = [number |-> latestNumber, timestamp |-> 0]
    /\ pc' = "loop"
    /\ UNCHANGED <<latestNumber, timestamps, targetTimestamp, mid, fetched,
                   brokeOut, result, error, thrown, failedAt>>
    /\ UNCHANGED others

\* const latestBlock = await provider.getBlock('latest'); let left = 0 ...
GetLatestResolve ==
    /\ pc = "start"
    /\ left' = 0
    /\ right' = latestNumber
    /\ closestBlock' = Null
    /\ pc' = "loop"
    /\ UNCHANGED <<latestNumber, timestamps, targetTimestamp, mid, fetched,
                   brokeOut, result, error, thrown, failedAt>>
    /\ UNCHANGED others

\* provider.getBlock('latest') rejects: the await throws out of the function
GetLatestReject(e) ==
    /\ pc = "start"
    /\ thrown' = e
    /\ failedAt' = Len(fetched)
    /\ error' = e
    /\ pc' = "rejected"
    /\ UNCHANGED <<latestNumber, timestamps, targetTimestamp, left, right, mid,
                   closestBlock, fetched, brokeOut, result>>
    /\ UNCHANGED others

\* while (left <= right) { const mid = ...; const block = await provider.getBlock(mid)
Probe ==
    /\ pc = "loop"
    /\ LoopCondition
    /\ mid' = Mid(left, right)
    /\ fetched' = Append(fetched, mid')
    /\ pc' = "await"
    /\ UNCHANGED <<latestNumber, timestamps, targetTimestamp, left, right,
                   closestBlock, brokeOut, result, error, thrown, failedAt>>
    /\ UNCHANGED others

\* the fetch resolved within tolerance: closestBlock = block; break; return closestBlock
GetBlockResolveBreak ==
    /\ pc = "await"
    /\ CloseEnough(Block(mid))
    /\ closestBlock' = Block(mid)
    /\ brokeOut' = TRUE
    /\ result' = closestBlock'
    /\ pc' = "done"
    /\ UNCHANGED <<latestNumber, timestamps, targetTimestamp, left, right, mid,
                   fetched, error, thrown, failedAt>>
    /\ UNCHANGED others

\* the fetch resolved outside tolerance: move a bound, keep track of closest
GetBlockResolveNarrow ==
    /\ pc = "await"
    /\ ~CloseEnough(Block(mid))
    /\ left' = NextLeft(Block(mid), mid)
    /\ right' = NextRight(Block(mid), mid)
    /\ closestBlock' = NextClosest(Block(mid))
    /\ pc' = "loop"
    /\ UNCHANGED <<latestNumber, timestamps, targetTimestamp, mid, fetched,
                   brokeOut, result, error, thrown, failedAt>>
    /\ UNCHANGED others

\* the rejection caught inside the loop and the best block so far returned
GetBlockRejectSwallowed(e) ==
    /\ pc = "await"
    /\ thrown' = e
    /\ failedAt' = Len(fetched)
    /\ result' = closestBlock
    /\ pc' = "done"
    /\ UNCHANGED <<latestNumber, timestamps, targetTimestamp, left, right, mid,
                   closestBlock, fetched, brokeOut, error>>
    /\ UNCHANGED others

\* provider.getBlock(mid) rejects: the await throws out of the function
GetBlockReject(e) ==
    /\ pc = "await"
    /\ thrown' = e
    /\ failedAt' = Len(fetched)
    /\ error' = e
    /\ pc' = "rejected"
    /\ UNCHANGED <<latestNumber, timestamps, targetTimestamp, left, right, mid,
                   closestBlock, fetched, brokeOut, result>>
    /\ UNCHANGED others

\* the loop condition left <= right fails: return closestBlock
Return ==
    /\ pc = "loop"
    /\ ~LoopCondition
    /\ result' = closestBlock
    /\ pc' = "done"
    /\ UNCHANGED <<latestNumber, timestamps, targetTimestamp, left, right, mid,
                   closestBlock, fetched, brokeOut, error, thrown, failedAt>>
    /\ UNCHANGED others

Next ==
    \/ GetLatestResolve
    \/ \E e \in Errors : GetLatestReject(e)
    \/ Probe
    \/ GetBlockResolveBreak
    \/ GetBlockResolveNarrow
    \/ \E e \in Errors : GetBlockReject(e)
    \/ Return

Spec == Init /\ [][Next]_vars

\* a pending promise settles, and the function continues after every await
FairSpec == Spec /\ WF_vars(Next)

----------------------------------------------------------------------------
(* Vocabulary of the properties *)

Blocks == 0..latestNumber

\* timestamp(n) <= timestamp(n + 1) over [0, latestNumber]
NonDecreasing == \A n \in Blocks : n + 1 \in Blocks => timestamps[n] <= timestamps[n + 1]

\* |timestamp(n) - target|
DistanceOf(n) == Abs(timestamps[n] - targetTimestamp)

\* the blocks whose fetch resolved and was handled by the loop body
Probed ==
    {fetched[i] : i \in 1..(IF pc \in {"await", "rejected"} THEN Len(fetched) - 1
                                                           ELSE Len(fetched))}

\* n is at least as close to the target as every block of the chain
GloballyClosest(n) == \A k \in Blocks : DistanceOf(n) <= DistanceOf(k)

Synthetic == latestNumber = SyntheticHead

TypeOK ==
    /\ pc \in {"start", "loop", "await", "done", "rejected"}
    /\ error \in Errors \cup {None}
    /\ thrown \in Errors \cup {None}
    /\ brokeOut \in BOOLEAN
    /\ closestBlock = Null \/ closestBlock = Block(closestBlock.number)

----------------------------------------------------------------------------
(* C1: for latestBlockNumber >= 0 and a non-decreasing series, the returned
   block is the globally closest one: |timestamp(n) - target| is minimal over
   all blocks of [0, latestBlockNumber].  (Original statement.) *)
C1_ReturnsGloballyClosest ==
    (pc = "done" /\ latestNumber >= 0 /\ NonDecreasing)
        => (result # Null /\ GloballyClosest(result.number))

(* C1 as amended: for latestBlockNumber >= 0 and a non-decreasing series whose
   fetches all succeed, the returned block either was accepted by the early
   exit, and is then less than 15 s from the target, or is globally closest. *)
C1_ClosestOrEarlyExit ==
    (pc = "done" /\ latestNumber >= 0 /\ NonDecreasing)
        => /\ result # Null
           /\ result = Block(result.number)
           /\ IF brokeOut THEN Distance(result) < Tolerance
                          ELSE GloballyClosest(result.number)

\* a search over three or more blocks that emptied its window and returned a
\* block strictly closer than some other block
C1_Witness ==
    /\ pc = "done" /\ ~brokeOut /\ NonDecreasing
    /\ latestNumber >= 2 /\ Len(fetched) >= 2
    /\ result # Null /\ GloballyClosest(result.number)
    /\ \E k \in Blocks : DistanceOf(k) > DistanceOf(result.number)

(* C2: a probe whose block is within 15 s of the target (<= 15) ends the
   search at that probe and returns that block; on the 12-second series with
   head 1000 the targets 6000 and 6005 return block 500 after one probe. *)
C2_StopsWithinTolerance ==
    /\ \A i \in 1..Len(fetched) :
          (fetched[i] \in Probed /\ DistanceOf(fetched[i]) <= Tolerance)
              => /\ i = Len(fetched)
                 /\ pc = "done" /\ brokeOut
                 /\ result = Block(fetched[i])
    /\ (Synthetic /\ targetTimestamp \in {6000, 6005} /\ pc = "done")
          => (result # Null /\ result.number = 500 /\ Len(fetched) = 1)

(* C3: if some block of [0, latestBlockNumber] is within 15 s of the target
   (<= 15), the locator terminates through the early exit and returns a block
   within tolerance.  Stated for the non-decreasing chains of the data model;
   the statement over arbitrary chains is stronger and fails with it. *)
C3_EarlyExitWhenSomeBlockWithin ==
    (pc = "done" /\ latestNumber >= 0 /\ NonDecreasing
        /\ \E n \in Blocks : DistanceOf(n) <= Tolerance)
        => (brokeOut /\ result # Null /\ Distance(result) <= Tolerance)

(* What the code does in the case of C3: on a non-decreasing series the
   returned block is within 15 s (<= 15) of the target whenever some block is,
   and the early exit is taken exactly when some block is less than 15 s away. *)
ReturnsWithinTolerance ==
    (pc = "done" /\ latestNumber >= 0 /\ NonDecreasing
        /\ \E n \in Blocks : DistanceOf(n) <= Tolerance)
        => /\ result # Null
           /\ Distance(result) <= Tolerance
           /\ brokeOut <=> \E n \in Blocks : DistanceOf(n) < Tolerance

(* C4: every probe that does not exit early leaves low no smaller and high
   no larger and makes the width high - low strictly smaller, for monotonic
   and non-monotonic series alike; and the call ends, by an empty window, a
   close-enough match or a rejected fetch. *)
C4_WindowShrinksAndTerminates ==
    /\ [][(pc = "await" /\ pc' = "loop")
            => /\ left' >= left
               /\ right' <= right
               /\ right' - left' < right - left]_vars
    /\ <>(pc \in {"done", "rejected"})

\* a non-monotonic series searched to an empty window in three probes
C4_Witness ==
    /\ pc = "done" /\ ~brokeOut /\ ~NonDecreasing
    /\ Len(fetched) >= 3
    /\ left > right

(* C5: started with low <= high (latestBlockNumber >= 0), the locator's final
   window satisfies low > high.  (Original statement.) *)
C5_FinalWindowEmpty ==
    (pc = "done" /\ latestNumber >= 0) => left > right

(* C5 as amended: started with latestBlockNumber >= 0, the final window
   satisfies low > high exactly when the locator ended without the early
   exit; after an early exit the window still holds the returned block,
   low <= mid <= high. *)
C5_FinalWindowEmptyUnlessEarlyExit ==
    (pc = "done" /\ latestNumber >= 0)
        => IF brokeOut THEN left <= mid /\ mid <= right /\ result.number = mid
                       ELSE left > right

\* the window emptied after more than one probe
C5_Witness ==
    /\ pc = "done" /\ ~brokeOut /\ latestNumber >= 0
    /\ Len(fetched) >= 2
    /\ left > right

\* target earlier than timestamp(0) by more than the tolerance
BeforeGenesis == latestNumber >= 0 /\ timestamps[0] - targetTimestamp > Tolerance

\* target later than timestamp(latestBlockNumber) by more than the tolerance
AfterHead == latestNumber >= 0 /\ targetTimestamp - timestamps[latestNumber] > Tolerance

(* C6: for a non-decreasing series, duplicates allowed, and a target earlier
   than timestamp(0) by more than the tolerance the locator returns block 0.
   (Original statement.) *)
C6_BeforeGenesisReturnsZero ==
    (pc = "done" /\ NonDecreasing /\ BeforeGenesis)
        => (result # Null /\ result.number = 0)

(* C6 as amended: for such a series and target the locator returns a block
   whose timestamp equals timestamp(0), the first one it probed; that is block
   0 itself whenever timestamp(1) > timestamp(0), as on the 12-second series
   with head 1000 and target -100. *)
C6_BeforeGenesisReturnsEarliestTimestamp ==
    (pc = "done" /\ NonDecreasing /\ BeforeGenesis)
        => /\ result # Null /\ ~brokeOut
           /\ result.timestamp = timestamps[0]
           /\ \A i \in 1..Len(fetched) :
                 timestamps[fetched[i]] = timestamps[0] => result.number >= fetched[i]
           /\ (latestNumber >= 1 /\ timestamps[1] > timestamps[0]) => result.number = 0
           /\ latestNumber = 0 => result.number = 0
           /\ Synthetic => result.number = 0

\* block 0 returned after a descent of two or more probes
C6_Witness ==
    /\ pc = "done" /\ NonDecreasing /\ BeforeGenesis
    /\ Len(fetched) >= 2
    /\ result.number = 0
    /\ timestamps[latestNumber] > timestamps[0]

(* C7: for a non-decreasing series, duplicates allowed, and a target later
   than timestamp(latestBlockNumber) by more than the tolerance the locator
   returns latestBlockNumber.  (Original statement.) *)
C7_AfterHeadReturnsHead ==
    (pc = "done" /\ NonDecreasing /\ AfterHead)
        => (result # Null /\ result.number = latestNumber)

(* C7 as amended: for such a series and target the locator returns a block
   whose timestamp equals timestamp(latestBlockNumber), the first one it
   probed; that is the head itself whenever timestamp(latestBlockNumber - 1)
   < timestamp(latestBlockNumber), as on the 12-second series with head 1000
   and target 999999. *)
C7_AfterHeadReturnsLatestTimestamp ==
    (pc = "done" /\ NonDecreasing /\ AfterHead)
        => /\ result # Null /\ ~brokeOut
           /\ result.timestamp = timestamps[latestNumber]
           /\ \A i \in 1..Len(fetched) :
                 timestamps[fetched[i]] = timestamps[latestNumber]
                     => result.number <= fetched[i]
           /\ (latestNumber >= 1 /\ timestamps[latestNumber - 1] < timestamps[latestNumber])
                 => result.number = latestNumber
           /\ latestNumber = 0 => result.number = 0
           /\ Synthetic => result.number = latestNumber

\* the head returned after an ascent of two or more probes
C7_Witness ==
    /\ pc = "done" /\ NonDecreasing /\ AfterHead
    /\ Len(fetched) >= 2
    /\ result.number = latestNumber
    /\ timestamps[latestNumber] > timestamps[0]

(* C8: when the provider rejects a fetch, at the first probe or a later one,
   the call rejects with that same error at once: the failed block is not
   fetched again, no further block is fetched, and no block is returned, not
   even the closest one seen so far. *)
C8_FetchFailurePropagates ==
    thrown # None
        => /\ pc = "rejected"
           /\ error = thrown
           /\ result = Null
           /\ Len(fetched) = failedAt
           /\ \A i, j \in 1..Len(fetched) : fetched[i] = fetched[j] => i = j

\* a later probe rejected while a closest block was already tracked
C8_Witness ==
    /\ pc = "rejected"
    /\ error \in Errors
    /\ Len(fetched) >= 2
    /\ closestBlock # Null

(* C9: invalid input (latestBlockNumber < 0) is rejected with an error before
   any block is probed; the locator never completes normally on it.
   (Original statement.) *)
C9_InvalidInputRejected ==
    latestNumber < 0 => /\ fetched = << >>
                        /\ pc # "done"

(* C9 as amended: with latestBlockNumber < 0 no block is ever probed, but the
   input is not rejected: the locator completes normally and returns the
   not-found value null; its only error outcome is a rejected fetch of the
   head block.  (The tolerance is the fixed 15 of the code, not an input.) *)
C9_NegativeHeadReturnsNull ==
    latestNumber < 0
        => /\ fetched = << >>
           /\ pc = "done" => (result = Null /\ ~brokeOut /\ error = None)
           /\ pc = "rejected" => (thrown # None /\ failedAt = 0)
           /\ pc \in {"start", "loop", "done", "rejected"}

\* the call completed normally on a negative head
C9_Witness ==
    /\ latestNumber < 0
    /\ pc = "done"
    /\ result = Null
    /\ fetched = << >>

(* C10: at every iteration boundary the tracked closest block is a probed
   block at least as close to the target as every block probed so far, and
   when the window empties without an early exit that block is returned. *)
C10_ClosestOfProbed ==
    (pc = "loop" \/ (pc = "done" /\ ~brokeOut))
        => /\ IF Probed = {}
              THEN closestBlock = Null
              ELSE /\ closestBlock # Null
                   /\ closestBlock.number \in Probed
                   /\ closestBlock = Block(closestBlock.number)
                   /\ \A n \in Probed : Distance(closestBlock) <= DistanceOf(n)
           /\ pc = "done" => result = closestBlock

\* the window emptied and the block returned is not the last one probed
C10_Witness ==
    /\ pc = "done" /\ ~brokeOut
    /\ Len(fetched) >= 3
    /\ result # Null
    /\ result.number # fetched[Len(fetched)]
    /\ \E n \in Probed : DistanceOf(n) > Distance(result)

(* C11: with latestBlockNumber >= 0 and every fetch succeeding the locator
   returns a block of [0, latestBlockNumber] that it probed; every probed mid
   satisfies 0 <= low <= mid <= high <= latestBlockNumber; null is returned
   only when no probe was made. *)
C11_ReturnsProbedBlockInRange ==
    /\ (pc = "done" /\ latestNumber >= 0)
          => /\ result # Null
             /\ result.number \in Blocks
             /\ result.number \in Probed
    /\ pc = "await"
          => /\ 0 <= left /\ left <= mid /\ mid <= right /\ right <= latestNumber
             /\ fetched[Len(fetched)] = mid
    /\ \A i \in 1..Len(fetched) : fetched[i] \in Blocks
    /\ (pc = "done" /\ result = Null) => fetched = << >>

\* a block other than the first probe returned after the window emptied
C11_Witness ==
    /\ pc = "done" /\ latestNumber >= 2
    /\ Len(fetched) >= 2
    /\ result # Null
    /\ result.number \in Probed
    /\ result.number # fetched[1]

----------------------------------------------------------------------------
(* Two invocations of findBlockByTimestamp issued concurrently by one caller
   on the same chain (spec section 5).  Every invocation owns its locals; the
   provider answers every fetch, with the block's timestamp.  The steps of the
   two invocations interleave at their awaits. *)

DuoMaxBlock == 2       \* the largest head block number of the shared chain
DuoMaxTimeUnits == 2   \* its timestamps are 0, 4 * TimeStep, .., DuoMaxTimeUnits * 4 * TimeStep

DuoTimes == {k * 4 * TimeStep : k \in 0..DuoMaxTimeUnits}
DuoTargets == {k * 3 * TimeStep : k \in 0..(DuoMaxTimeUnits + 1)}
Invocations == {1, 2}

\* the locator is not called
LocatorOff ==
    /\ pc = "off"
    /\ targetTimestamp = 0
    /\ left = 0
    /\ right = 0
    /\ mid = 0
    /\ closestBlock = Null
    /\ fetched = << >>
    /\ brokeOut = FALSE
    /\ result = Null
    /\ error = None
    /\ thrown = None
    /\ failedAt = 0

\* Math.abs(block.timestamp - targetTimestamp) < 15, for the target of one invocation
WithinOf(target, block) == Abs(block.timestamp - target) < Tolerance

\* lines 170-174 for the target of one invocation
LeftOf(target, block, m, l) == IF block.timestamp < target THEN m + 1 ELSE l
RightOf(target, block, m, r) == IF block.timestamp < target THEN r ELSE m - 1

\* lines 176-179 for the target of one invocation
ClosestOf(target, block, best) ==
    IF best = Null \/ Abs(block.timestamp - target) < Abs(best.timestamp - target)
    THEN block ELSE best

\* findBlockByTimestamp run alone on the chain: the loop of lines 160-180 from
\* the window [l, r] with closest block best, and the value of line 192
RECURSIVE SearchAlone(_, _, _, _)
SearchAlone(target, l, r, best) ==
    IF ~(l <= r) THEN best
    ELSE LET m == Mid(l, r)
             block == Block(m)
         IN  IF WithinOf(target, block) THEN block
             ELSE SearchAlone(target, LeftOf(target, block, m, l),
                              RightOf(target, block, m, r),
                              ClosestOf(target, block, best))

\* the blocks findBlockByTimestamp fetches when run alone, in order
RECURSIVE ProbesAlone(_, _, _)
ProbesAlone(target, l, r) ==
    IF ~(l <= r) THEN << >>
    ELSE LET m == Mid(l, r)
             block == Block(m)
         IN  IF WithinOf(target, block) THEN <<m>>
             ELSE <<m>> \o ProbesAlone(target, LeftOf(target, block, m, l),
                                       RightOf(target, block, m, r))

InitDuo ==
    /\ LocatorOff
    /\ latestNumber \in 0..DuoMaxBlock
    /\ timestamps \in [0..latestNumber -> DuoTimes]
    /\ duo \in [Invocations -> {[pc |-> "start", target |-> t, left |-> 0, right |-> 0,
                                 mid |-> 0, closestBlock |-> Null, fetched |-> << >>,
                                 outstanding |-> 1, result |-> Null] : t \in DuoTargets}]
    /\ readme = Idle
    /\ aave = Idle
    /\ retry = Idle
    /\ pager = Idle
    /\ pages = Idle
    /\ token = Idle
    /\ store = Idle

\* const latestBlock = await provider.getBlock('latest'); let left = 0 ...
DuoGetLatestResolve(i) ==
    /\ duo[i].pc = "start"
    /\ duo' = [duo EXCEPT ![i].left = 0, ![i].right = latestNumber,
                          ![i].closestBlock = Null,
                          ![i].outstanding = @ - 1, ![i].pc = "loop"]
    /\ UNCHANGED <<locator, latestNumber, timestamps, readme, aave, retry,
                   pager, pages, token, store>>

\* while (left <= right) { const mid = ...; const block = await provider.getBlock(mid)
DuoProbe(i) ==
    /\ duo[i].pc = "loop"
    /\ duo[i].left <= duo[i].right
    /\ LET m == Mid(duo[i].left, duo[i].right)
       IN  duo' = [duo EXCEPT ![i].mid = m, ![i].fetched = Append(@, m),
                              ![i].outstanding = @ + 1, ![i].pc = "await"]
    /\ UNCHANGED <<locator, latestNumber, timestamps, readme, aave, retry,
                   pager, pages, token, store>>

\* the fetch resolved within tolerance: closestBlock = block; break; return closestBlock
DuoResolveBreak(i) ==
    /\ duo[i].pc = "await"
    /\ WithinOf(duo[i].target, Block(duo[i].mid))
    /\ duo' = [duo EXCEPT ![i].closestBlock = Block(duo[i].mid),
                          ![i].result = Block(duo[i].mid),
                          ![i].outstanding = @ - 1, ![i].pc = "done"]
    /\ UNCHANGED <<locator, latestNumber, timestamps, readme, aave, retry,
                   pager, pages, token, store>>

\* left declared outside the function: the other invocation's left moves too
DuoResolveNarrowSharedLeft(i) ==
    /\ duo[i].pc = "await"
    /\ ~WithinOf(duo[i].target, Block(duo[i].mid))
    /\ LET block == Block(duo[i].mid)
           l == LeftOf(duo[i].target, block, duo[i].mid, duo[i].left)
       IN  duo' = [j \in Invocations |->
                     IF j = i
                     THEN [duo[i] EXCEPT
                             !.left = l,
                             !.right = RightOf(duo[i].target, block, duo[i].mid, @),
                             !.closestBlock = ClosestOf(duo[i].target, block, @),
                             !.outstanding = @ - 1, !.pc = "loop"]
                     ELSE [duo[j] EXCEPT !.left = l]]
    /\ UNCHANGED <<locator, latestNumber, timestamps, readme, aave, retry,
                   pager, pages, token, store>>

\* closestBlock declared outside the function: both invocations read and write it
DuoResolveNarrowSharedClosest(i) ==
    /\ duo[i].pc = "await"
    /\ ~WithinOf(duo[i].target, Block(duo[i].mid))
    /\ LET block == Block(duo[i].mid)
           best == ClosestOf(duo[i].target, block, duo[i].closestBlock)
       IN  duo' = [j \in Invocations |->
                     IF j = i
                     THEN [duo[i] EXCEPT
                             !.left = LeftOf(duo[i].target, block, duo[i].mid, @),
                             !.right = RightOf(duo[i].target, block, duo[i].mid, @),
                             !.closestBlock = best,
                             !.outstanding = @ - 1, !.pc = "loop"]
                     ELSE [duo[j] EXCEPT !.closestBlock = best]]
    /\ UNCHANGED <<locator, latestNumber, timestamps, readme, aave, retry,
                   pager, pages, token, store>>

\* the fetch resolved outside tolerance: move a bound, keep track of closest
DuoResolveNarrow(i) ==
    /\ duo[i].pc = "await"
    /\ ~WithinOf(duo[i].target, Block(duo[i].mid))
    /\ LET block == Block(duo[i].mid)
       IN  duo' = [duo EXCEPT
                     ![i].left = LeftOf(duo[i].target, block, duo[i].mid, @),
                     ![i].right = RightOf(duo[i].target, block, duo[i].mid, @),
                     ![i].closestBlock = ClosestOf(duo[i].target, block, @),
                     ![i].outstanding = @ - 1, ![i].pc = "loop"]
    /\ UNCHANGED <<locator, latestNumber, timestamps, readme, aave, retry,
                   pager, pages, token, store>>

\* the loop condition left <= right fails: return closestBlock
DuoReturn(i) ==
    /\ duo[i].pc = "loop"
    /\ ~(duo[i].left <= duo[i].right)
    /\ duo' = [duo EXCEPT ![i].result = duo[i].closestBlock, ![i].pc = "done"]
    /\ UNCHANGED <<locator, latestNumber, timestamps, readme, aave, retry,
                   pager, pages, token, store>>

NextDuo ==
    \/ \E i \in Invocations : DuoGetLatestResolve(i)
    \/ \E i \in Invocations : DuoProbe(i)
    \/ \E i \in Invocations : DuoResolveBreak(i)
    \/ \E i \in Invocations : DuoResolveNarrow(i)
    \/ \E i \in Invocations : DuoReturn(i)

SpecDuo == InitDuo /\ [][NextDuo]_vars

(* C12: two runs of the locator with the same target, the same head and the
   same deterministic timestamp function fetch the same sequence of blocks and
   return the same block, namely those of a single run. *)
C12_Deterministic ==
    (duo[1].target = duo[2].target /\ duo[1].pc = "done" /\ duo[2].pc = "done")
        => /\ duo[1].fetched = duo[2].fetched
           /\ duo[1].result = duo[2].result
           /\ duo[1].fetched = ProbesAlone(duo[1].target, 0, latestNumber)

\* two finished runs on one target that each took two or more probes
C12_Witness ==
    /\ duo[1].target = duo[2].target
    /\ duo[1].pc = "done" /\ duo[2].pc = "done"
    /\ Len(duo[1].fetched) >= 2
    /\ duo[1].fetched = duo[2].fetched
    /\ duo[1].result = duo[2].result

(* C13: an invocation has at most one fetch outstanding, and its bounds
   change only in the step in which that fetch resolves; two concurrent
   invocations with different targets each return, in every interleaving,
   the block they return when run alone. *)
C13_IndependentInvocations ==
    /\ [](\A i \in Invocations :
            /\ duo[i].outstanding \in {0, 1}
            /\ duo[i].outstanding = 1 <=> duo[i].pc \in {"start", "await"}
            /\ duo[i].pc = "done"
                  => /\ duo[i].result = SearchAlone(duo[i].target, 0, latestNumber, Null)
                     /\ duo[i].fetched = ProbesAlone(duo[i].target, 0, latestNumber))
    /\ [][\A i \in Invocations :
            (duo'[i].left # duo[i].left \/ duo'[i].right # duo[i].right)
                => (duo[i].outstanding = 1 /\ duo'[i].outstanding = 0)]_vars

\* two finished invocations with different targets and different results, each
\* after two or more probes
C13_Witness ==
    /\ duo[1].target # duo[2].target
    /\ duo[1].pc = "done" /\ duo[2].pc = "done"
    /\ Len(duo[1].fetched) >= 2 /\ Len(duo[2].fetched) >= 2
    /\ duo[1].result # duo[2].result

----------------------------------------------------------------------------
(* getBlockByTimestamp(timestamp, provider), the binary search printed in
   02-transaction-simulation/README.md (lines 95-115, "Binary search to find
   block closest to timestamp"). *)

ReadmeMaxBlock == 2    \* the largest head block number enumerated for it

\* the other functions are not called
ReadmeAlone ==
    /\ LocatorOff /\ duo = Idle /\ aave = Idle /\ retry = Idle
    /\ pager = Idle /\ pages = Idle /\ token = Idle /\ store = Idle

InitReadme ==
    /\ ReadmeAlone
    /\ latestNumber \in 0..ReadmeMaxBlock
    /\ timestamps \in [0..latestNumber -> Times]
    /\ readme \in {[pc |-> "start", timestamp |-> t, left |-> 0, right |-> 0, mid |-> 0,
                    fetched |-> << >>, result |-> 0 - 1, error |-> None] : t \in Targets}

\* const latestBlock = await provider.getBlock('latest'); let left = 0; let right = ...
ReadmeGetLatestResolve ==
    /\ readme.pc = "start"
    /\ readme' = [readme EXCEPT !.left = 0, !.right = latestNumber, !.pc = "loop"]
    /\ UNCHANGED <<locator, latestNumber, timestamps, duo, aave, retry,
                   pager, pages, token, store>>

\* provider.getBlock('latest') rejects
ReadmeGetLatestReject(e) ==
    /\ readme.pc = "start"
    /\ readme' = [readme EXCEPT !.error = e, !.pc = "rejected"]
    /\ UNCHANGED <<locator, latestNumber, timestamps, duo, aave, retry,
                   pager, pages, token, store>>

\* while (left < right) { const mid = ...; const block = await provider.getBlock(mid)
ReadmeProbe ==
    /\ readme.pc = "loop"
    /\ readme.left < readme.right
    /\ LET m == (readme.left + readme.right) \div 2
       IN  readme' = [readme EXCEPT !.mid = m, !.fetched = Append(@, m), !.pc = "await"]
    /\ UNCHANGED <<locator, latestNumber, timestamps, duo, aave, retry,
                   pager, pages, token, store>>

\* if (block.timestamp < timestamp) left = mid + 1 else right = mid
ReadmeGetBlockResolve ==
    /\ readme.pc = "await"
    /\ readme' = [readme EXCEPT
                    !.left = IF Block(readme.mid).timestamp < readme.timestamp
                             THEN readme.mid + 1 ELSE @,
                    !.right = IF Block(readme.mid).timestamp < readme.timestamp
                              THEN @ ELSE readme.mid,
                    !.pc = "loop"]
    /\ UNCHANGED <<locator, latestNumber, timestamps, duo, aave, retry,
                   pager, pages, token, store>>

\* provider.getBlock(mid) rejects
ReadmeGetBlockReject(e) ==
    /\ readme.pc = "await"
    /\ readme' = [readme EXCEPT !.error = e, !.pc = "rejected"]
    /\ UNCHANGED <<locator, latestNumber, timestamps, duo, aave, retry,
                   pager, pages, token, store>>

\* the loop condition left < right fails: return left
ReadmeReturn ==
    /\ readme.pc = "loop"
    /\ ~(readme.left < readme.right)
    /\ readme' = [readme EXCEPT !.result = readme.left, !.pc = "done"]
    /\ UNCHANGED <<locator, latestNumber, timestamps, duo, aave, retry,
                   pager, pages, token, store>>

NextReadme ==
    \/ ReadmeGetLatestResolve
    \/ \E e \in Errors : ReadmeGetLatestReject(e)
    \/ ReadmeProbe
    \/ ReadmeGetBlockResolve
    \/ \E e \in Errors : ReadmeGetBlockReject(e)
    \/ ReadmeReturn

SpecReadme == InitReadme /\ [][NextReadme]_vars

\* |timestamp(n) - timestamp| for the README's parameter
ReadmeDistanceOf(n) == Abs(timestamps[n] - readme.timestamp)

(* C14: for every non-decreasing series over [0, latest] the README's
   getBlockByTimestamp returns the block whose timestamp is closest to the
   requested timestamp. *)
C14_ReadmeReturnsClosest ==
    (readme.pc = "done" /\ NonDecreasing)
        => /\ readme.result \in Blocks
           /\ \A k \in Blocks : ReadmeDistanceOf(readme.result) <= ReadmeDistanceOf(k)

(* What the README's search does return on a non-decreasing series: the first
   block whose timestamp is not before the requested one, or the head when
   every block is before it. *)
ReadmeReturnsFirstNotBefore ==
    (readme.pc = "done" /\ NonDecreasing)
        => /\ readme.result \in Blocks
           /\ \A k \in Blocks : k < readme.result => timestamps[k] < readme.timestamp
           /\ readme.result < latestNumber => timestamps[readme.result] >= readme.timestamp

----------------------------------------------------------------------------
(* supplyToAave(signer, assetAddress, amount, network = "mainnet") of
   Aula-03-defi-introducao/aave-supply-example.js (lines 44-107).  The token
   and pool contracts and the signer are the environment: every awaited call
   resolves or rejects.  A transaction counts as submitted when the call that
   sends it resolves. *)

MaxAmount == 2         \* amounts, balances and allowances are 0..MaxAmount

Undefined == "undefined"
Networks == {"mainnet", "sepolia", "polygon"}
NoError == << >>

\* const AAVE_POOL_ADDRESSES = { sepolia: "0x6Ae4..." }
AAVE_POOL_ADDRESSES == [n \in {"sepolia"} |-> "0x6Ae43d3271ff6888e7Fc43Fd7321a503ff738951"]

\* network = "mainnet": the default value of the parameter
NetworkParameter(arg) == IF arg = Undefined THEN "mainnet" ELSE arg

\* const aavePoolAddress = AAVE_POOL_ADDRESSES[network]
PoolAddressOf(network) ==
    IF network \in DOMAIN AAVE_POOL_ADDRESSES THEN AAVE_POOL_ADDRESSES[network] ELSE Undefined

\* catch (error) { console.error(...); throw error }
AaveThrow(e, where) ==
    [aave EXCEPT !.error = e, !.failedIn = where, !.pc = "rejected"]

\* the other functions are not called
AaveAlone ==
    /\ LocatorOff /\ latestNumber = 0 /\ timestamps = << >>
    /\ duo = Idle /\ readme = Idle /\ retry = Idle
    /\ pager = Idle /\ pages = Idle /\ token = Idle /\ store = Idle

InitAave ==
    /\ AaveAlone
    /\ \E arg \in Networks \cup {Undefined}, amount, balance, allowance \in 0..MaxAmount :
          aave = [pc |-> "start", networkArgument |-> arg,
                  network |-> NetworkParameter(arg), amount |-> amount,
                  balance |-> balance, allowance |-> allowance,
                  calls |-> << >>, txs |-> << >>, approveConfirmed |-> FALSE,
                  receipt |-> FALSE, error |-> NoError, failedIn |-> None]

\* lines 49-58: look the pool up, throw on a missing address, else signer.getAddress()
AaveStart ==
    /\ aave.pc = "start"
    /\ aave' = IF PoolAddressOf(aave.network) = Undefined
               THEN AaveThrow(<<"Unsupported network: ", aave.network>>, "start")
               ELSE [aave EXCEPT !.calls = Append(@, "getAddress"), !.pc = "getAddress"]
    /\ UNCHANGED <<locator, latestNumber, timestamps, duo, readme, retry,
                   pager, pages, token, store>>

\* line 58 resolved; line 62: token.balanceOf(userAddress)
AaveGetAddressResolve ==
    /\ aave.pc = "getAddress"
    /\ aave' = [aave EXCEPT !.calls = Append(@, "balanceOf"), !.pc = "balanceOf"]
    /\ UNCHANGED <<locator, latestNumber, timestamps, duo, readme, retry,
                   pager, pages, token, store>>

\* the balance check left out
AaveBalanceOfResolveUnchecked ==
    /\ aave.pc = "balanceOf"
    /\ aave' = [aave EXCEPT !.calls = Append(@, "allowance"), !.pc = "allowance"]
    /\ UNCHANGED <<locator, latestNumber, timestamps, duo, readme, retry,
                   pager, pages, token, store>>

\* line 62 resolved; lines 65-71: throw on balance < amount, else token.allowance(...)
AaveBalanceOfResolve ==
    /\ aave.pc = "balanceOf"
    /\ aave' = IF aave.balance < aave.amount
               THEN AaveThrow(<<"Insufficient balance">>, "balanceCheck")
               ELSE [aave EXCEPT !.calls = Append(@, "allowance"), !.pc = "allowance"]
    /\ UNCHANGED <<locator, latestNumber, timestamps, duo, readme, retry,
                   pager, pages, token, store>>

\* line 71 resolved; lines 75-92: token.approve(...) when the allowance is short,
\* else aavePool.supply(...)
AaveAllowanceResolve ==
    /\ aave.pc = "allowance"
    /\ aave' = IF aave.allowance < aave.amount
               THEN [aave EXCEPT !.calls = Append(@, "approve"), !.pc = "approve"]
               ELSE [aave EXCEPT !.calls = Append(@, "supply"), !.pc = "supply"]
    /\ UNCHANGED <<locator, latestNumber, timestamps, duo, readme, retry,
                   pager, pages, token, store>>

\* approveTx.wait() not awaited: the supply is sent right after the approval
AaveApproveResolveNoWait ==
    /\ aave.pc = "approve"
    /\ aave' = [aave EXCEPT !.txs = Append(@, "approve"),
                            !.calls = @ \o <<"approve.wait", "supply">>, !.pc = "supply"]
    /\ UNCHANGED <<locator, latestNumber, timestamps, duo, readme, retry,
                   pager, pages, token, store>>

\* line 77 resolved: the approval is submitted; line 79: approveTx.wait()
AaveApproveResolve ==
    /\ aave.pc = "approve"
    /\ aave' = [aave EXCEPT !.txs = Append(@, "approve"),
                            !.calls = Append(@, "approve.wait"), !.pc = "approve.wait"]
    /\ UNCHANGED <<locator, latestNumber, timestamps, duo, readme, retry,
                   pager, pages, token, store>>

\* line 79 resolved: the approval is confirmed; lines 87-92: aavePool.supply(...)
AaveApproveWaitResolve ==
    /\ aave.pc = "approve.wait"
    /\ aave' = [aave EXCEPT !.approveConfirmed = TRUE,
                            !.calls = Append(@, "supply"), !.pc = "supply"]
    /\ UNCHANGED <<locator, latestNumber, timestamps, duo, readme, retry,
                   pager, pages, token, store>>

\* line 87 resolved: the supply is submitted; line 95: supplyTx.wait()
AaveSupplyResolve ==
    /\ aave.pc = "supply"
    /\ aave' = [aave EXCEPT !.txs = Append(@, "supply"),
                            !.calls = Append(@, "supply.wait"), !.pc = "supply.wait"]
    /\ UNCHANGED <<locator, latestNumber, timestamps, duo, readme, retry,
                   pager, pages, token, store>>

\* line 95 resolved; line 101: return receipt
AaveSupplyWaitResolve ==
    /\ aave.pc = "supply.wait"
    /\ aave' = [aave EXCEPT !.receipt = TRUE, !.pc = "done"]
    /\ UNCHANGED <<locator, latestNumber, timestamps, duo, readme, retry,
                   pager, pages, token, store>>

\* an awaited call rejects: the catch of line 103 logs and re-throws the reason
AaveCallReject(e) ==
    /\ aave.pc \in {"getAddress", "balanceOf", "allowance", "approve", "approve.wait",
                    "supply", "supply.wait"}
    /\ aave' = AaveThrow(<<e>>, aave.pc)
    /\ UNCHANGED <<locator, latestNumber, timestamps, duo, readme, retry,
                   pager, pages, token, store>>

NextAave ==
    \/ AaveStart
    \/ AaveGetAddressResolve
    \/ AaveBalanceOfResolve
    \/ AaveAllowanceResolve
    \/ AaveApproveResolve
    \/ AaveApproveWaitResolve
    \/ AaveSupplyResolve
    \/ AaveSupplyWaitResolve
    \/ \E e \in Errors : AaveCallReject(e)

SpecAave == InitAave /\ [][NextAave]_vars

\* the elements of a sequence
Range(seq) == {seq[i] : i \in 1..Len(seq)}

\* the call has settled
AaveSettled == aave.pc \in {"done", "rejected"}

\* no awaited call was rejected by the environment
AaveCallsSucceeded == aave.failedIn \notin {"getAddress", "balanceOf", "allowance", "approve",
                                            "approve.wait", "supply", "supply.wait"}

(* C15: supplyToAave called as documented with network "mainnet" (also the
   default of the parameter), a balance >= amount and every contract call
   succeeding passes the balance and allowance checks, submits the supply
   transaction and returns its receipt. *)
C15_MainnetSupplySucceeds ==
    (aave.network = "mainnet" /\ aave.balance >= aave.amount
        /\ AaveSettled /\ AaveCallsSucceeded)
        => /\ aave.pc = "done"
           /\ aave.receipt
           /\ "supply" \in Range(aave.txs)
           /\ {"balanceOf", "allowance"} \subseteq Range(aave.calls)

(* C16: the supply transaction is sent only after the pool's allowance is
   known to cover the amount: the allowance read was >= amount, or an approve
   transaction was submitted and its confirmation (wait) completed; when
   approve or its confirmation fails no supply transaction is ever sent. *)
C16_SupplyOnlyAfterAllowance ==
    /\ "supply" \in Range(aave.calls)
          => \/ aave.allowance >= aave.amount /\ "allowance" \in Range(aave.calls)
             \/ "approve" \in Range(aave.txs) /\ aave.approveConfirmed
    /\ "supply" \in Range(aave.txs) => "supply" \in Range(aave.calls)
    /\ aave.failedIn \in {"approve", "approve.wait"}
          => /\ aave.pc = "rejected"
             /\ "supply" \notin Range(aave.calls)
             /\ "supply" \notin Range(aave.txs)
    /\ "approve" \in Range(aave.calls) => aave.allowance < aave.amount

\* a supply submitted after an approval that was sent and confirmed
C16_Witness ==
    /\ aave.pc = "done"
    /\ aave.allowance < aave.amount
    /\ aave.txs = <<"approve", "supply">>
    /\ aave.approveConfirmed

(* C17: on a network without a pool address, or a balance read below the
   amount, supplyToAave throws "Unsupported network: <name>" resp.
   "Insufficient balance", the error is re-thrown to the caller and no
   transaction, approve or supply, has been submitted; for an unsupported
   network no contract call is made at all. *)
C17_RejectsWithoutTransaction ==
    /\ (PoolAddressOf(aave.network) = Undefined /\ aave.pc # "start")
          => /\ aave.pc = "rejected"
             /\ aave.error = <<"Unsupported network: ", aave.network>>
             /\ aave.calls = << >>
             /\ aave.txs = << >>
    /\ (PoolAddressOf(aave.network) # Undefined /\ aave.balance < aave.amount
           /\ aave.pc \notin {"start", "getAddress", "balanceOf"} /\ AaveCallsSucceeded)
          => /\ aave.pc = "rejected"
             /\ aave.error = <<"Insufficient balance">>
             /\ aave.calls = <<"getAddress", "balanceOf">>
             /\ aave.txs = << >>

\* the balance read came back below the amount on a supported network
C17_Witness ==
    /\ aave.network = "sepolia"
    /\ aave.balance < aave.amount
    /\ aave.pc = "rejected"
    /\ aave.error = <<"Insufficient balance">>
    /\ aave.txs = << >>

----------------------------------------------------------------------------
(* executeWithRetry(queryId, maxRetries = 3) of the Dune API examples
   (src/unnamed/part_001, lines 268-299).  The Dune client is the environment:
   client.execute and client.getExecutionResults resolve or reject; the timer
   of the backoff fires. *)

MaxRetries == 4        \* maxRetries is 0..MaxRetries

QueryIds == {1, 2}
QueryResults == {"rows-a", "rows-b"}
Failed == "failed"

\* Math.pow(b, n) for a natural n
RECURSIVE Pow(_, _)
Pow(b, n) == IF n = 0 THEN 1 ELSE b * Pow(b, n - 1)

\* the backoff started one power too low: Math.pow(2, attempt - 1) * 1000
BackoffDelayFromOne(attempt) == Pow(2, attempt - 1) * 1000

\* const delay = Math.pow(2, attempt) * 1000
BackoffDelay(attempt) == Pow(2, attempt) * 1000

\* new Error(`Failed after ${maxRetries} attempts`)
FailedAfter(n) == [message |-> "Failed after ${maxRetries} attempts", maxRetries |-> n]

\* for (let attempt = ...; attempt <= maxRetries; ...) { ... await client.execute(queryId)
\* entered with the given value of attempt; falling off the loop returns undefined
RetryLoop(r, attempt) ==
    IF attempt <= r.maxRetries
    THEN [r EXCEPT !.attempt = attempt, !.started = Append(@, attempt), !.pc = "execute"]
    ELSE [r EXCEPT !.attempt = attempt, !.result = Undefined, !.pc = "done"]

\* the other functions are not called
RetryAlone ==
    /\ LocatorOff /\ latestNumber = 0 /\ timestamps = << >>
    /\ duo = Idle /\ readme = Idle /\ aave = Idle
    /\ pager = Idle /\ pages = Idle /\ token = Idle /\ store = Idle

InitRetry ==
    /\ RetryAlone
    /\ \E id \in QueryIds, key \in BOOLEAN, n \in 0..MaxRetries :
          retry = [pc |-> "start", queryId |-> id, apiKey |-> key,
                   maxRetries |-> n, attempt |-> 0,
                   started |-> << >>, outcomes |-> << >>, waits |-> << >>,
                   lastError |-> None, result |-> Null, error |-> Null]

\* lines 271-276: return when DUNE_API_KEY is not set, else enter the loop at attempt 1
RetryStart ==
    /\ retry.pc = "start"
    /\ retry' = IF ~retry.apiKey
                THEN [retry EXCEPT !.result = Undefined, !.pc = "done"]
                ELSE RetryLoop(retry, 1)
    /\ UNCHANGED <<locator, latestNumber, timestamps, duo, readme, aave,
                   pager, pages, token, store>>

\* line 280 resolved; line 281: client.getExecutionResults(execution.execution_id)
RetryExecuteResolve ==
    /\ retry.pc = "execute"
    /\ retry' = [retry EXCEPT !.pc = "results"]
    /\ UNCHANGED <<locator, latestNumber, timestamps, duo, readme, aave,
                   pager, pages, token, store>>

\* the return of line 284 left out: the loop goes on to the next attempt
RetryResultsResolveNoReturn(v) ==
    /\ retry.pc = "results"
    /\ retry' = RetryLoop([retry EXCEPT !.outcomes = Append(@, v), !.result = v],
                          retry.attempt + 1)
    /\ UNCHANGED <<locator, latestNumber, timestamps, duo, readme, aave,
                   pager, pages, token, store>>

\* line 281 resolved with v; line 284: return result
RetryResultsResolve(v) ==
    /\ retry.pc = "results"
    /\ retry' = [retry EXCEPT !.outcomes = Append(@, v), !.result = v, !.pc = "done"]
    /\ UNCHANGED <<locator, latestNumber, timestamps, duo, readme, aave,
                   pager, pages, token, store>>

\* line 280 or 281 rejected; lines 286-296: throw after the last attempt, else
\* compute the delay and start the timer
RetryAttemptReject(e) ==
    /\ retry.pc \in {"execute", "results"}
    /\ retry' = IF retry.attempt = retry.maxRetries
                THEN [retry EXCEPT !.outcomes = Append(@, Failed), !.lastError = e,
                                   !.error = FailedAfter(retry.maxRetries),
                                   !.pc = "rejected"]
                ELSE [retry EXCEPT !.outcomes = Append(@, Failed), !.lastError = e,
                                   !.waits = Append(@, BackoffDelay(retry.attempt)),
                                   !.pc = "backoff"]
    /\ UNCHANGED <<locator, latestNumber, timestamps, duo, readme, aave,
                   pager, pages, token, store>>

\* line 296: the timer fired; attempt++ and the loop condition of line 276
RetryBackoffElapsed ==
    /\ retry.pc = "backoff"
    /\ retry' = RetryLoop(retry, retry.attempt + 1)
    /\ UNCHANGED <<locator, latestNumber, timestamps, duo, readme, aave,
                   pager, pages, token, store>>

NextRetry ==
    \/ RetryStart
    \/ RetryExecuteResolve
    \/ \E v \in QueryResults : RetryResultsResolve(v)
    \/ \E e \in Errors : RetryAttemptReject(e)
    \/ RetryBackoffElapsed

SpecRetry == InitRetry /\ [][NextRetry]_vars

\* the call has settled
RetrySettled == retry.pc \in {"done", "rejected"}

\* attempts 1..k all failed
AllFailed(k) == \A i \in 1..k : retry.outcomes[i] = Failed

(* C18: with the API key configured the attempts are made strictly one
   after another, attempt k+1 only after attempts 1..k all failed, never
   more than maxRetries of them, and none after the first success. *)
C18_AttemptsInSequence ==
    retry.apiKey
        => /\ Len(retry.started) <= retry.maxRetries
           /\ \A k \in 1..Len(retry.started) : retry.started[k] = k
           /\ Len(retry.started) - Len(retry.outcomes) \in {0, 1}
           /\ Len(retry.started) - Len(retry.outcomes) = 1
                 <=> retry.pc \in {"execute", "results"}
           /\ AllFailed(Len(retry.started) - 1)
           /\ \A k \in 1..Len(retry.outcomes) :
                 retry.outcomes[k] # Failed
                     => (k = Len(retry.started) /\ retry.pc = "done")

\* a success on the third attempt, after two failures
C18_Witness ==
    /\ retry.apiKey
    /\ retry.pc = "done"
    /\ Len(retry.outcomes) = 3
    /\ AllFailed(2)
    /\ retry.outcomes[3] \in QueryResults

(* C19: with the API key configured, for every maxRetries >= 0 the call
   returns the result of the first successful attempt or throws "Failed
   after <maxRetries> attempts" once maxRetries attempts failed; it never
   completes normally without a result. *)
C19_ResultOrFailedAfter ==
    (retry.apiKey /\ RetrySettled)
        => \/ /\ retry.pc = "done"
              /\ retry.result \in QueryResults
              /\ retry.result = retry.outcomes[Len(retry.outcomes)]
              /\ AllFailed(Len(retry.outcomes) - 1)
           \/ /\ retry.pc = "rejected"
              /\ retry.error = FailedAfter(retry.maxRetries)
              /\ Len(retry.outcomes) = retry.maxRetries
              /\ AllFailed(retry.maxRetries)

(* Supporting fact: the two outcomes are the only ones for maxRetries >= 1;
   with maxRetries = 0 the loop body never runs, no attempt is made and the
   call completes normally with undefined. *)
ResultOrFailedAfterFromOne ==
    (retry.apiKey /\ RetrySettled)
        => IF retry.maxRetries >= 1
           THEN \/ /\ retry.pc = "done"
                   /\ retry.result \in QueryResults
                   /\ retry.result = retry.outcomes[Len(retry.outcomes)]
                   /\ AllFailed(Len(retry.outcomes) - 1)
                \/ /\ retry.pc = "rejected"
                   /\ retry.error = FailedAfter(retry.maxRetries)
                   /\ Len(retry.outcomes) = retry.maxRetries
                   /\ AllFailed(retry.maxRetries)
           ELSE /\ retry.pc = "done"
                /\ retry.result = Undefined
                /\ retry.started = << >>

(* C20: after failed attempt k, 1 <= k < maxRetries, the call waits
   2^k * 1000 ms before attempt k+1: 2000, 4000, 8000, .., each wait twice
   the one before; no wait follows the final failed attempt. *)
C20_ExponentialBackoff ==
    retry.apiKey
        => /\ \A k \in 1..Len(retry.waits) :
                 /\ k < retry.maxRetries
                 /\ retry.outcomes[k] = Failed
                 /\ retry.waits[k] = (IF k = 1 THEN 2000 ELSE 2 * retry.waits[k - 1])
           /\ Len(retry.waits) >= 3 => retry.waits[3] = 8000
           /\ retry.pc \in {"execute", "results"} => Len(retry.waits) = retry.attempt - 1
           /\ retry.pc = "backoff" => Len(retry.waits) = retry.attempt
           /\ retry.pc = "rejected" => Len(retry.waits) = retry.maxRetries - 1

\* three waits, of 2000, 4000 and 8000 ms, and then the final failure
C20_Witness ==
    /\ retry.apiKey
    /\ retry.pc = "rejected"
    /\ retry.maxRetries = 4
    /\ retry.waits = <<2000, 4000, 8000>>

----------------------------------------------------------------------------
(* paginatedQuery() of the advanced event filters (src/unnamed/part_000,
   lines 16-49).  The provider is the environment: getBlockNumber and getLogs
   resolve or reject, the rate-limit timer fires. *)

MaxHeadUnits == 3      \* the head is 0..MaxHeadUnits steps past the lookback
HeadStep == 6000       \* one step of the head, in blocks

Lookback == 10000      \* const startBlock = currentBlock - 10000
ChunkSize == 2000      \* const chunkSize = 2000

\* the block numbers provider.getBlockNumber() serves
Heads == {Lookback + k * HeadStep : k \in 0..MaxHeadUnits}

\* Math.min(a, b)
Min(a, b) == IF a < b THEN a ELSE b

\* the logs provider.getLogs may serve for fromBlock..toBlock, each log
\* standing for the block it was emitted in
LogsOf(from, to) == {<< >>, <<from>>, <<to>>, <<from, to>>}

\* the loop condition of line 28 with the last block included: from <= endBlock
PagerLoopConditionInclusive(from, endBlock) == from <= endBlock

\* line 28: from < endBlock
PagerLoopCondition(from, endBlock) == from < endBlock

\* line 29: const to = Math.min(from + chunkSize - 1, endBlock)
ChunkEnd(from, endBlock) == Min(from + ChunkSize - 1, endBlock)

\* lines 28-38 entered with the given value of from: the next getLogs request,
\* or lines 46-48 when the loop is left
PagerLoop(p, from) ==
    IF PagerLoopCondition(from, p.endBlock)
    THEN [p EXCEPT !.from = from, !.to = ChunkEnd(from, p.endBlock),
                   !.chunks = Append(@, [from |-> from,
                                         to |-> ChunkEnd(from, p.endBlock)]),
                   !.pc = "getLogs"]
    ELSE [p EXCEPT !.from = from, !.result = p.allLogs, !.pc = "done"]

\* the other functions are not called
PagerAlone ==
    /\ LocatorOff /\ latestNumber = 0 /\ timestamps = << >>
    /\ duo = Idle /\ readme = Idle /\ aave = Idle /\ retry = Idle
    /\ pages = Idle /\ token = Idle /\ store = Idle

\* line 19: await provider.getBlockNumber()
InitPager ==
    /\ PagerAlone
    /\ pager = [pc |-> "getBlockNumber", currentBlock |-> Null, startBlock |-> Null,
                endBlock |-> Null, from |-> Null, to |-> Null, chunks |-> << >>,
                allLogs |-> << >>, result |-> Null, error |-> None]

\* line 19 resolved; lines 20-38
PagerGetBlockNumberResolve(n) ==
    /\ pager.pc = "getBlockNumber"
    /\ pager' = PagerLoop([pager EXCEPT !.currentBlock = n,
                                        !.startBlock = n - Lookback,
                                        !.endBlock = n],
                          n - Lookback)
    /\ UNCHANGED <<locator, latestNumber, timestamps, duo, readme, aave, retry,
                   pages, token, store>>

\* lines 33-43: getLogs resolved, allLogs = allLogs.concat(logs), the timer starts
PagerGetLogsResolve(logs) ==
    /\ pager.pc = "getLogs"
    /\ pager' = [pager EXCEPT !.allLogs = @ \o logs, !.pc = "sleep"]
    /\ UNCHANGED <<locator, latestNumber, timestamps, duo, readme, aave, retry,
                   pages, token, store>>

\* line 43 elapsed; line 28: from += chunkSize and the loop condition
PagerSleepElapsed ==
    /\ pager.pc = "sleep"
    /\ pager' = PagerLoop(pager, pager.from + ChunkSize)
    /\ UNCHANGED <<locator, latestNumber, timestamps, duo, readme, aave, retry,
                   pages, token, store>>

\* getBlockNumber or getLogs rejected: nothing catches it
PagerReject(e) ==
    /\ pager.pc \in {"getBlockNumber", "getLogs"}
    /\ pager' = [pager EXCEPT !.error = e, !.pc = "rejected"]
    /\ UNCHANGED <<locator, latestNumber, timestamps, duo, readme, aave, retry,
                   pages, token, store>>

NextPager ==
    \/ \E n \in Heads : PagerGetBlockNumberResolve(n)
    \/ \E logs \in LogsOf(pager.from, pager.to) : PagerGetLogsResolve(logs)
    \/ PagerSleepElapsed
    \/ \E e \in Errors : PagerReject(e)

SpecPager == InitPager /\ [][NextPager]_vars

\* the requested chunks that hold block b
ChunksWith(b) ==
    {i \in 1..Len(pager.chunks) : pager.chunks[i].from <= b /\ b <= pager.chunks[i].to}

(* C21: when paginatedQuery returns, every block of the inclusive range
   startBlock..endBlock, endBlock included, lies in exactly one requested
   chunk, and no chunk spans more than chunkSize blocks. *)
C21_ChunksPartitionRange ==
    pager.pc = "done"
        => /\ \A b \in pager.startBlock..pager.endBlock : Cardinality(ChunksWith(b)) = 1
           /\ \A i \in 1..Len(pager.chunks) :
                 pager.chunks[i].to - pager.chunks[i].from + 1 <= ChunkSize

(* Supporting fact: the chunks are disjoint, in order, at most chunkSize
   blocks each, and cover startBlock..endBlock - 1; endBlock is covered only
   when endBlock - startBlock is not a multiple of chunkSize. *)
ChunksPartitionAllButLast ==
    pager.pc = "done"
        => /\ \A b \in pager.startBlock..(pager.endBlock - 1) :
                 Cardinality(ChunksWith(b)) = 1
           /\ \A i \in 1..Len(pager.chunks) :
                 pager.chunks[i].to - pager.chunks[i].from + 1 <= ChunkSize
           /\ Cardinality(ChunksWith(pager.endBlock)) = 0

----------------------------------------------------------------------------
(* getAllTransfersPaginated() and querySubgraph(query) of the subgraph query
   examples (thegraph/mappings/token.ts, lines 290-307 and 496-537).  The
   subgraph is the environment: it holds an unchanging list of transfers,
   ordered by timestamp, and a page query is answered with data, answered
   with GraphQL errors, or fails. *)

MaxTotalUnits == 12    \* the subgraph holds 0..MaxTotalUnits steps of transfers
TotalStep == 25        \* one step, in transfers

PageSize == 100        \* const pageSize = 100

Totals == {k * TotalStep : k \in 0..MaxTotalUnits}

\* the transfers of a subgraph of n transfers, in timestamp order
TransfersOf(n) == [i \in 1..n |-> i]

\* transfers(first: pageSize, skip: skip, orderBy: timestamp, orderDirection: asc)
Page(n, skip) == [i \in 1..Min(PageSize, IF n > skip THEN n - skip ELSE 0) |-> skip + i]

\* lines 522-532 on the value querySubgraph returned: the transfers of
\* data.transfers, or null
AfterQuery(g, data) ==
    IF data # Null /\ Len(data) > 0
    THEN [g EXCEPT !.allTransfers = @ \o data, !.skip = @ + PageSize,
                   !.served = Append(@, data),
                   !.hasMore = ~(Len(data) < PageSize)]
    ELSE [g EXCEPT !.hasMore = FALSE]

\* line 504 after an iteration: the next query, or lines 535-536
PagesLoop(g) ==
    IF g.hasMore
    THEN [g EXCEPT !.pc = "query"]
    ELSE [g EXCEPT !.result = g.allTransfers, !.pc = "done"]

\* the other functions are not called
PagesAlone ==
    /\ LocatorOff /\ latestNumber = 0 /\ timestamps = << >>
    /\ duo = Idle /\ readme = Idle /\ aave = Idle /\ retry = Idle
    /\ pager = Idle /\ token = Idle /\ store = Idle

\* lines 499-520: the first query is in flight
InitPages ==
    /\ PagesAlone
    /\ \E n \in Totals :
          pages = [pc |-> "query", total |-> n, allTransfers |-> << >>, skip |-> 0,
                   hasMore |-> TRUE, served |-> << >>, failure |-> None,
                   result |-> Null]

\* axios.post resolved without errors: querySubgraph returns response.data.data
PagesQueryResolve ==
    /\ pages.pc = "query"
    /\ pages' = PagesLoop(AfterQuery(pages, Page(pages.total, pages.skip)))
    /\ UNCHANGED <<locator, latestNumber, timestamps, duo, readme, aave, retry,
                   pager, token, store>>

\* axios.post resolved with response.data.errors: querySubgraph returns null
PagesQueryErrors ==
    /\ pages.pc = "query"
    /\ pages' = PagesLoop(AfterQuery([pages EXCEPT !.failure = "graphql"], Null))
    /\ UNCHANGED <<locator, latestNumber, timestamps, duo, readme, aave, retry,
                   pager, token, store>>

\* axios.post rejected: the catch of querySubgraph returns null
PagesQueryReject(e) ==
    /\ pages.pc = "query"
    /\ pages' = PagesLoop(AfterQuery([pages EXCEPT !.failure = e], Null))
    /\ UNCHANGED <<locator, latestNumber, timestamps, duo, readme, aave, retry,
                   pager, token, store>>

NextPages ==
    \/ PagesQueryResolve
    \/ PagesQueryErrors
    \/ \E e \in Errors : PagesQueryReject(e)

SpecPages == InitPages /\ [][NextPages]_vars

(* C22: when getAllTransfersPaginated returns, the returned list holds every
   transfer of the subgraph exactly once, in the order the pages were served,
   whatever the number of transfers and whatever happened to the individual
   page queries. *)
C22_ReturnsEveryTransferOnce ==
    pages.pc = "done" => pages.result = TransfersOf(pages.total)

(* Supporting fact: the returned list is the transfers before the first
   failed page query, in order and without repetition, and holds every
   transfer when no page query failed. *)
ReturnsTransfersBeforeFailure ==
    pages.pc = "done"
        => /\ pages.result = SubSeq(TransfersOf(pages.total), 1, Len(pages.result))
           /\ pages.failure = None => pages.result = TransfersOf(pages.total)
           /\ pages.failure # None
                 => Len(pages.result) = Min(pages.total, Len(pages.served) * PageSize)

----------------------------------------------------------------------------
(* The SampleToken contract (01-event-filters/contract-example/SampleToken.sol).
   Every external call is one transaction: it runs to its end or reverts and
   leaves the storage as it was.  Amounts are uint256 numbers of the smallest
   unit; the model counts them in units of 10 ** (decimals - ModelledDecimals),
   so that one token, 10 ** decimals, is 10 ** ModelledDecimals of the model,
   and takes its amounts from the multiples of that unit.  No sum reaches
   2 ** 256: the balances add up to totalSupply. *)

ModelledDecimals == 2  \* the digits of a token the model keeps
InitialSupply == 20000 \* the constructor's initialSupply, in tokens
ValueSlack == 1        \* amounts are taken 0..ValueSlack units below each tier
MaxCalls == 2          \* transactions sent to the contract

ZeroAddress == "0x0"   \* address(0)
Accounts == {"deployer", "holder"}
Addresses == Accounts \cup {ZeroAddress}

\* 10 ** decimals
OneToken == Pow(10, ModelledDecimals)

\* the amounts of the calls: zero, one token, and the amounts at and just
\* below 100, 1000 and 10000 tokens
Values ==
    {0, OneToken} \cup {m * OneToken - d : m \in {100, 1000, 10000}, d \in 0..ValueSlack}

\* event Transfer(from, to, value)
TransferEvent(from, to, value) ==
    [event |-> "Transfer", from |-> from, to |-> to, value |-> value]

\* event LargeTransfer(from, to, tier, amount, timestamp)
LargeTransferEvent(from, to, tier, amount) ==
    [event |-> "LargeTransfer", from |-> from, to |-> to, tier |-> tier,
     amount |-> amount, timestamp |-> "block.timestamp"]

\* the comparisons of lines 105-109 made strict: value > threshold * ..
CheckLargeTransferStrict(from, to, value) ==
    LET threshold == 100 * OneToken
    IN  IF value > threshold * 100 THEN <<LargeTransferEvent(from, to, 3, value)>>
        ELSE IF value > threshold * 10 THEN <<LargeTransferEvent(from, to, 2, value)>>
        ELSE IF value > threshold THEN <<LargeTransferEvent(from, to, 1, value)>>
        ELSE << >>

\* _checkLargeTransfer(from, to, value), lines 101-116: the events it emits
CheckLargeTransfer(from, to, value) ==
    LET threshold == 100 * OneToken
    IN  IF value >= threshold * 100 THEN <<LargeTransferEvent(from, to, 3, value)>>
        ELSE IF value >= threshold * 10 THEN <<LargeTransferEvent(from, to, 2, value)>>
        ELSE IF value >= threshold THEN <<LargeTransferEvent(from, to, 1, value)>>
        ELSE << >>

\* a transaction that reverted with the given reason: the storage is kept
Reverted(t, fn, value, reason) ==
    [t EXCEPT !.calls = @ + 1,
              !.last = [fn |-> fn, value |-> value, status |-> reason, emitted |-> << >>]]

\* a transaction that ran to its end, with the events it emitted
Succeeded(t, fn, value, emitted) ==
    [t EXCEPT !.calls = @ + 1,
              !.last = [fn |-> fn, value |-> value, status |-> "success",
                        emitted |-> emitted]]

\* the other functions are not called
TokenAlone ==
    /\ LocatorOff /\ latestNumber = 0 /\ timestamps = << >>
    /\ duo = Idle /\ readme = Idle /\ aave = Idle /\ retry = Idle
    /\ pager = Idle /\ pages = Idle /\ store = Idle

\* constructor(initialSupply), lines 48-52, sent by the deployer
InitToken ==
    /\ TokenAlone
    /\ token = [totalSupply |-> InitialSupply * OneToken,
                balanceOf |-> [a \in Addresses |->
                                  IF a = "deployer" THEN InitialSupply * OneToken ELSE 0],
                allowance |-> [o \in Addresses |-> [s \in Addresses |-> 0]],
                calls |-> 0,
                last |-> [fn |-> "constructor", value |-> InitialSupply * OneToken,
                          status |-> "success",
                          emitted |-> <<TransferEvent(ZeroAddress, "deployer",
                                                      InitialSupply * OneToken)>>]]

\* transfer(to, value) sent by sender, lines 54-67
TokenTransfer(sender, to, value) ==
    /\ token.calls < MaxCalls
    /\ token' =
          IF ~(token.balanceOf[sender] >= value)
          THEN Reverted(token, "transfer", value, "Insufficient balance")
          ELSE IF ~(to # ZeroAddress)
          THEN Reverted(token, "transfer", value, "Invalid address")
          ELSE LET debited == [token.balanceOf EXCEPT ![sender] = @ - value]
                   credited == [debited EXCEPT ![to] = @ + value]
               IN  Succeeded([token EXCEPT !.balanceOf = credited], "transfer", value,
                             <<TransferEvent(sender, to, value)>>
                                 \o CheckLargeTransfer(sender, to, value))
    /\ UNCHANGED <<locator, latestNumber, timestamps, duo, readme, aave, retry,
                   pager, pages, store>>

\* approve(spender, value) sent by sender, lines 69-73
TokenApprove(sender, spender, value) ==
    /\ token.calls < MaxCalls
    /\ token' = Succeeded([token EXCEPT !.allowance[sender][spender] = value],
                          "approve", value,
                          <<[event |-> "Approval", owner |-> sender,
                             spender |-> spender, value |-> value]>>)
    /\ UNCHANGED <<locator, latestNumber, timestamps, duo, readme, aave, retry,
                   pager, pages, store>>

\* transferFrom(from, to, value) sent by sender, lines 75-89
TokenTransferFrom(sender, from, to, value) ==
    /\ token.calls < MaxCalls
    /\ token' =
          IF ~(token.balanceOf[from] >= value)
          THEN Reverted(token, "transferFrom", value, "Insufficient balance")
          ELSE IF ~(token.allowance[from][sender] >= value)
          THEN Reverted(token, "transferFrom", value, "Insufficient allowance")
          ELSE IF ~(to # ZeroAddress)
          THEN Reverted(token, "transferFrom", value, "Invalid address")
          ELSE LET debited == [token.balanceOf EXCEPT ![from] = @ - value]
                   credited == [debited EXCEPT ![to] = @ + value]
               IN  Succeeded([token EXCEPT !.balanceOf = credited,
                                           !.allowance[from][sender] = @ - value],
                             "transferFrom", value,
                             <<TransferEvent(from, to, value)>>
                                 \o CheckLargeTransfer(from, to, value))
    /\ UNCHANGED <<locator, latestNumber, timestamps, duo, readme, aave, retry,
                   pager, pages, store>>

\* burn(value, reason) sent by sender, lines 91-99
TokenBurn(sender, value) ==
    /\ token.calls < MaxCalls
    /\ token' =
          IF ~(token.balanceOf[sender] >= value)
          THEN Reverted(token, "burn", value, "Insufficient balance")
          ELSE Succeeded([token EXCEPT !.balanceOf[sender] = @ - value,
                                       !.totalSupply = @ - value],
                         "burn", value,
                         <<TransferEvent(sender, ZeroAddress, value),
                           [event |-> "TokensBurned", burner |-> sender,
                            amount |-> value, reason |-> "reason"]>>)
    /\ UNCHANGED <<locator, latestNumber, timestamps, duo, readme, aave, retry,
                   pager, pages, store>>

NextToken ==
    \/ \E sender \in Accounts, to \in Addresses, value \in Values :
          TokenTransfer(sender, to, value)
    \/ \E sender \in Accounts, spender \in Accounts, value \in Values :
          TokenApprove(sender, spender, value)
    \/ \E sender \in Accounts, from \in Accounts, to \in Addresses, value \in Values :
          TokenTransferFrom(sender, from, to, value)
    \/ \E sender \in Accounts, value \in Values : TokenBurn(sender, value)

SpecToken == InitToken /\ [][NextToken]_vars

\* the LargeTransfer events of the last transaction
LargeTransfersOfLast ==
    {i \in 1..Len(token.last.emitted) : token.last.emitted[i].event = "LargeTransfer"}

\* the tier of the only LargeTransfer event of the last transaction
TierOfLast == token.last.emitted[CHOOSE i \in LargeTransfersOfLast : TRUE].tier

(* C23: every successful transfer or transferFrom of value v emits exactly
   one LargeTransfer event when v >= 100 tokens and none otherwise, with
   tier 1 for 100 <= v < 1000 tokens, tier 2 for 1000 <= v < 10000 tokens and
   tier 3 for v >= 10000 tokens; burn never emits LargeTransfer. *)
C23_LargeTransferTiers ==
    LET v == token.last.value
    IN  /\ (token.last.fn \in {"transfer", "transferFrom"} /\ token.last.status = "success")
              => IF v >= 100 * OneToken
                 THEN /\ Cardinality(LargeTransfersOfLast) = 1
                      /\ (100 * OneToken <= v /\ v < 1000 * OneToken) => TierOfLast = 1
                      /\ (1000 * OneToken <= v /\ v < 10000 * OneToken) => TierOfLast = 2
                      /\ v >= 10000 * OneToken => TierOfLast = 3
                 ELSE LargeTransfersOfLast = {}
        /\ token.last.fn = "burn" => LargeTransfersOfLast = {}

\* a transferFrom of exactly 1000 tokens that emitted LargeTransfer of tier 2
C23_Witness ==
    /\ token.last.fn = "transferFrom"
    /\ token.last.status = "success"
    /\ token.last.value = 1000 * OneToken
    /\ Cardinality(LargeTransfersOfLast) = 1
    /\ TierOfLast = 2

----------------------------------------------------------------------------
(* The subgraph mapping (thegraph/mappings/token.ts, lines 28-266):
   handleTransfer and handleApproval and their helpers, over the entity store.
   An entity is loaded into a local copy and written back whole by save().
   The chain is the environment: it emits the Transfer and Approval events of
   ERC20 tokens, in block order, each transfer covered by the balance of its
   sender; a mint is a transfer from the zero address, a burn one to it. *)

MaxEvents == 2         \* events handled
MaxValue == 1          \* event.params.value is 0..MaxValue
MaxDay == 1            \* block timestamps lie in the days 0..MaxDay

DaySeconds == 86400    \* timestamp.toI32() / 86400

ZERO_ADDRESS == "0x0000000000000000000000000000000000000000"
GLOBAL_STATS_ID == "1"

TokenAddresses == {"USDC", "DAI"}
Holders == {"alice", "bob"}
EventAddresses == Holders \cup {ZERO_ADDRESS}
EventValues == 0..MaxValue

\* block timestamps: the last second of day 0 and the first of each later day
BlockTimestamps == {DaySeconds - 1} \cup {d * DaySeconds : d \in 1..MaxDay}

\* new Token(address.toHex()) with its counters initialised, lines 112-137
NewToken == [transferCount |-> 0, holderCount |-> 0]

\* new User(userId) with its fields initialised, lines 151-162
NewUser ==
    [balance |-> 0, totalSent |-> 0, totalReceived |-> 0,
     transfersSentCount |-> 0, transfersReceivedCount |-> 0]

\* getOrCreateToken(address), lines 108-141
GetOrCreateToken(s, t) ==
    IF s.tokens[t] = Null THEN [s EXCEPT !.tokens[t] = NewToken] ELSE s

\* getOrCreateUser(address, tokenAddress), lines 146-175
GetOrCreateUser(s, a, t) ==
    IF s.users[t][a] = Null
    THEN LET counted == IF s.tokens[t] # Null
                        THEN [s EXCEPT !.tokens[t].holderCount = @ + 1]
                        ELSE s
         IN  [counted EXCEPT !.users[t][a] = NewUser]
    ELSE s

\* updateUserBalance without line 190: a sender's totalSent is left as it was
UpdateUserBalanceNoTotalSent(s, a, t, value, isSending) ==
    LET got == GetOrCreateUser(s, a, t)
        user == got.users[t][a]
        updated == IF isSending
                   THEN [user EXCEPT !.balance = @ - value,
                                     !.transfersSentCount = @ + 1]
                   ELSE [user EXCEPT !.balance = @ + value,
                                     !.totalReceived = @ + value,
                                     !.transfersReceivedCount = @ + 1]
        saved == [got EXCEPT !.users[t][a] = updated]
    IN  IF updated.balance = 0 /\ saved.tokens[t] # Null
        THEN [saved EXCEPT !.tokens[t].holderCount = @ - 1]
        ELSE saved

\* updateUserBalance(address, tokenAddress, value, isSending), lines 180-216
UpdateUserBalance(s, a, t, value, isSending) ==
    LET got == GetOrCreateUser(s, a, t)
        user == got.users[t][a]
        updated == IF isSending
                   THEN [user EXCEPT !.balance = @ - value,
                                     !.totalSent = @ + value,
                                     !.transfersSentCount = @ + 1]
                   ELSE [user EXCEPT !.balance = @ + value,
                                     !.totalReceived = @ + value,
                                     !.transfersReceivedCount = @ + 1]
        saved == [got EXCEPT !.users[t][a] = updated]
    IN  IF updated.balance = 0 /\ saved.tokens[t] # Null
        THEN [saved EXCEPT !.tokens[t].holderCount = @ - 1]
        ELSE saved

\* the day of a timestamp: timestamp.toI32() / 86400, line 227
DayId(timestamp) == timestamp \div DaySeconds

\* updateDailyStats that files every event under the day of the first bucket
UpdateDailyStatsFirstDay(s, t, timestamp, volume) ==
    LET dayId == 0
        stats == IF s.daily[t][dayId] = Null
                 THEN [date |-> dayId * DaySeconds, count |-> 0, volume |-> 0]
                 ELSE s.daily[t][dayId]
    IN  [s EXCEPT !.daily[t][dayId] =
                     [stats EXCEPT !.count = @ + 1, !.volume = @ + volume]]

\* updateDailyStats(tokenAddress, timestamp, volume), lines 221-245
UpdateDailyStats(s, t, timestamp, volume) ==
    LET dayId == DayId(timestamp)
        stats == IF s.daily[t][dayId] = Null
                 THEN [date |-> dayId * DaySeconds, count |-> 0, volume |-> 0]
                 ELSE s.daily[t][dayId]
    IN  [s EXCEPT !.daily[t][dayId] =
                     [stats EXCEPT !.count = @ + 1, !.volume = @ + volume]]

\* updateGlobalStats(timestamp, blockNumber), lines 250-266
UpdateGlobalStats(s, timestamp) ==
    LET stats == IF s.global = Null
                 THEN [totalTransfers |-> 0, lastUpdateTimestamp |-> 0]
                 ELSE s.global
    IN  [s EXCEPT !.global = [stats EXCEPT !.totalTransfers = @ + 1,
                                           !.lastUpdateTimestamp = timestamp]]

\* the store after handleTransfer(event), lines 36-73
AfterTransfer(s, id, t, from, to, value, timestamp) ==
    LET s1 == GetOrCreateToken(s, t)
        token_ == s1.tokens[t]                        \* let token, line 38
        s2 == GetOrCreateUser(s1, from, t)
        s3 == GetOrCreateUser(s2, to, t)
        s4 == [s3 EXCEPT !.transfers = @ \cup
                  {[id |-> id, token |-> t, from |-> from, to |-> to,
                    value |-> value, timestamp |-> timestamp]}]
        s5 == [s4 EXCEPT !.tokens[t] =
                  [token_ EXCEPT !.transferCount = @ + 1]]   \* token.save(), line 57
        s6 == IF from # ZERO_ADDRESS THEN UpdateUserBalance(s5, from, t, value, TRUE)
              ELSE s5
        s7 == IF to # ZERO_ADDRESS THEN UpdateUserBalance(s6, to, t, value, FALSE)
              ELSE s6
        s8 == UpdateDailyStats(s7, t, timestamp, value)
    IN  UpdateGlobalStats(s8, timestamp)

\* the store after handleApproval(event), lines 78-94
AfterApproval(s, id, t, owner) ==
    LET s1 == GetOrCreateToken(s, t)
        s2 == GetOrCreateUser(s1, owner, t)
    IN  [s2 EXCEPT !.approvals = @ \cup {id}]

\* the timestamp of the block of the last event handled
LastTimestamp ==
    IF store.handled = << >> THEN 0 ELSE store.handled[Len(store.handled)].timestamp

\* the other functions are not called
StoreAlone ==
    /\ LocatorOff /\ latestNumber = 0 /\ timestamps = << >>
    /\ duo = Idle /\ readme = Idle /\ aave = Idle /\ retry = Idle
    /\ pager = Idle /\ pages = Idle /\ token = Idle

\* the empty store of a subgraph that has handled nothing
InitStore ==
    /\ StoreAlone
    /\ store = [tokens |-> [t \in TokenAddresses |-> Null],
                users |-> [t \in TokenAddresses |-> [a \in EventAddresses |-> Null]],
                transfers |-> {},
                approvals |-> {},
                daily |-> [t \in TokenAddresses |-> [d \in 0..MaxDay |-> Null]],
                global |-> Null,
                handled |-> << >>,
                onChain |-> [t \in TokenAddresses |-> [a \in Holders |-> 0]]]

\* the balances of the token contract after the transfer
OnChainAfter(b, from, to, value) ==
    LET debited == IF from # ZERO_ADDRESS THEN [b EXCEPT ![from] = @ - value] ELSE b
    IN  IF to # ZERO_ADDRESS THEN [debited EXCEPT ![to] = @ + value] ELSE debited

\* handleTransfer(event) for a Transfer event of token t
HandleTransfer(t, from, to, value, timestamp) ==
    /\ Len(store.handled) < MaxEvents
    /\ timestamp >= LastTimestamp
    /\ ~(from = ZERO_ADDRESS /\ to = ZERO_ADDRESS)
    /\ from # ZERO_ADDRESS => store.onChain[t][from] >= value
    /\ store' =
          [AfterTransfer(store, Len(store.handled) + 1, t, from, to, value, timestamp)
              EXCEPT !.handled = Append(@, [kind |-> "Transfer", token |-> t,
                                            from |-> from, to |-> to, value |-> value,
                                            timestamp |-> timestamp]),
                     !.onChain[t] = OnChainAfter(@, from, to, value)]
    /\ UNCHANGED <<locator, latestNumber, timestamps, duo, readme, aave, retry,
                   pager, pages, token>>

\* handleApproval(event) for an Approval event of token t; the mapping makes
\* no use of its block, which is taken to be that of the event before
HandleApproval(t, owner) ==
    /\ Len(store.handled) < MaxEvents
    /\ store' =
          [AfterApproval(store, Len(store.handled) + 1, t, owner)
              EXCEPT !.handled = Append(@, [kind |-> "Approval", token |-> t,
                                            from |-> owner, to |-> owner, value |-> 0,
                                            timestamp |-> LastTimestamp])]
    /\ UNCHANGED <<locator, latestNumber, timestamps, duo, readme, aave, retry,
                   pager, pages, token>>

NextStore ==
    \/ \E t \in TokenAddresses, from \in EventAddresses, to \in EventAddresses,
          value \in EventValues, timestamp \in BlockTimestamps :
          HandleTransfer(t, from, to, value, timestamp)
    \/ \E t \in TokenAddresses, owner \in Holders : HandleApproval(t, owner)

SpecStore == InitStore /\ [][NextStore]_vars

\* the Transfer events handled so far that satisfy P
HandledTransfers(P(_)) ==
    {i \in 1..Len(store.handled) : store.handled[i].kind = "Transfer" /\ P(store.handled[i])}

\* the User entities of token t with a balance above zero
PositiveBalances(t) ==
    {a \in EventAddresses : store.users[t][a] # Null /\ store.users[t][a].balance > 0}

(* C24: after any sequence of Transfer and Approval events of a token,
   Token.holderCount equals the number of User entities of that token whose
   balance is greater than zero. *)
C24_HolderCountMatchesPositiveBalances ==
    \A t \in TokenAddresses :
        store.tokens[t] # Null
            => store.tokens[t].holderCount = Cardinality(PositiveBalances(t))

\* the sum of DailyTransferCount.count over the buckets of token t up to day d
RECURSIVE DailyCountSum(_, _)
DailyCountSum(t, d) ==
    IF d < 0 THEN 0
    ELSE (IF store.daily[t][d] = Null THEN 0 ELSE store.daily[t][d].count)
             + DailyCountSum(t, d - 1)

\* the stored Transfer entities of token t
TransfersOfToken(t) == {x \in store.transfers : x.token = t}

(* C25: after any sequence of Transfer events, for each token
   Token.transferCount equals the number of stored Transfer entities of the
   token and the sum of DailyTransferCount.count over its day buckets,
   GlobalStats.totalTransfers equals the number of Transfer events handled,
   and each event is counted in exactly one bucket, the one whose date is
   floor(timestamp / 86400) * 86400. *)
C25_TransferCountsAgree ==
    /\ \A t \in TokenAddresses :
          LET n == Cardinality(HandledTransfers(LAMBDA e : e.token = t))
          IN  /\ Cardinality(TransfersOfToken(t)) = n
              /\ IF store.tokens[t] = Null THEN n = 0
                 ELSE store.tokens[t].transferCount = n
              /\ DailyCountSum(t, MaxDay) = n
              /\ \A d \in 0..MaxDay :
                    store.daily[t][d] # Null
                        => /\ store.daily[t][d].date % 86400 = 0
                           /\ store.daily[t][d].date = d * 86400
                           /\ store.daily[t][d].count =
                                 Cardinality(HandledTransfers(LAMBDA e :
                                     /\ e.token = t
                                     /\ store.daily[t][d].date <= e.timestamp
                                     /\ e.timestamp < store.daily[t][d].date + 86400))
              /\ \A i \in HandledTransfers(LAMBDA e : e.token = t) :
                    \E d \in 0..MaxDay :
                        /\ store.daily[t][d] # Null
                        /\ store.daily[t][d].date <= store.handled[i].timestamp
                        /\ store.handled[i].timestamp < store.daily[t][d].date + 86400
    /\ IF store.global = Null THEN HandledTransfers(LAMBDA e : TRUE) = {}
       ELSE store.global.totalTransfers = Cardinality(HandledTransfers(LAMBDA e : TRUE))

\* two transfers of one token handled on either side of a midnight: two
\* buckets of one event each
C25_Witness ==
    /\ Len(store.handled) = 2
    /\ store.handled[1].kind = "Transfer" /\ store.handled[2].kind = "Transfer"
    /\ store.handled[1].token = "USDC" /\ store.handled[2].token = "USDC"
    /\ store.handled[1].timestamp = 86399 /\ store.handled[2].timestamp = 86400
    /\ store.tokens["USDC"].transferCount = 2
    /\ store.daily["USDC"][0].count = 1
    /\ store.daily["USDC"][1].count = 1
    /\ store.global.totalTransfers = 2

\* the number of handled Transfer events of token t sent by a
SentBy(t, a) == Cardinality(HandledTransfers(LAMBDA e : e.token = t /\ e.from = a))

\* the number of handled Transfer events of token t received by a
ReceivedBy(t, a) == Cardinality(HandledTransfers(LAMBDA e : e.token = t /\ e.to = a))

(* C26: after any sequence of Transfer events every User entity has
   balance = totalReceived - totalSent and transfersSentCount and
   transfersReceivedCount equal to the number of handled events in which the
   user was sender resp. receiver, and the User of the zero address keeps
   balance, totalSent and totalReceived at 0. *)
C26_UserTotalsAndCounts ==
    \A t \in TokenAddresses, a \in EventAddresses :
        store.users[t][a] # Null
            => LET user == store.users[t][a]
               IN  /\ user.balance = user.totalReceived - user.totalSent
                   /\ user.transfersSentCount = SentBy(t, a)
                   /\ user.transfersReceivedCount = ReceivedBy(t, a)
                   /\ a = ZERO_ADDRESS
                         => user.balance = 0 /\ user.totalSent = 0 /\ user.totalReceived = 0

(* C26 as amended: the counts equal the numbers of events for every user
   other than the zero address; the User of the zero address keeps its
   balance, its totals and both its counts at 0, however many mints and
   burns were handled. *)
C26_UserTotalsAndCountsButZeroAddress ==
    \A t \in TokenAddresses, a \in EventAddresses :
        store.users[t][a] # Null
            => LET user == store.users[t][a]
               IN  /\ user.balance = user.totalReceived - user.totalSent
                   /\ a # ZERO_ADDRESS
                         => /\ user.transfersSentCount = SentBy(t, a)
                            /\ user.transfersReceivedCount = ReceivedBy(t, a)
                   /\ a = ZERO_ADDRESS
                         => /\ user.balance = 0
                            /\ user.totalSent = 0 /\ user.totalReceived = 0
                            /\ user.transfersSentCount = 0
                            /\ user.transfersReceivedCount = 0

\* a mint to alice and then a transfer from alice to herself
C26_Witness ==
    /\ Len(store.handled) = 2
    /\ store.handled[1].from = ZERO_ADDRESS /\ store.handled[1].to = "alice"
    /\ store.handled[2].from = "alice" /\ store.handled[2].to = "alice"
    /\ store.handled[1].token = "DAI" /\ store.handled[2].token = "DAI"
    /\ store.handled[1].value = 1 /\ store.handled[2].value = 1
    /\ store.users["DAI"]["alice"].balance = 1
    /\ store.users["DAI"]["alice"].totalSent = 1
    /\ store.users["DAI"]["alice"].totalReceived = 2
    /\ store.users["DAI"][ZERO_ADDRESS].transfersSentCount = 0

====
